---- MODULE Spec2Model ----
(***************************************************************************)
(* MP3Converter: the React client (frontend/src/App.jsx) and the           *)
(* conversion service behind POST /api/convert.                            *)
(*                                                                         *)
(* The client is modelled from App.jsx: its React state, its handlers and  *)
(* the requests it has in flight.  The conversion service (backend/app.py) *)
(* is specified by the design document only; its definitions are marked    *)
(* as such where they appear.                                              *)
(***************************************************************************)
EXTENDS Integers, Sequences, FiniteSets, TLC

(***************************************************************************)
(* Bounds of the model.                                                    *)
(***************************************************************************)
\* the client sends at most this many requests in one behaviour of Spec
MaxRequests == 2
\* the client sends at most this many requests in one behaviour of
\* SpecTrim and of SpecSession
MaxSessionRequests == 3
\* the user keeps at most this many tag fields filled in at a time
MaxTags == 1
\* the service handles at most this many requests in one behaviour of
\* SpecPipeline
MaxJobs == 2
\* media durations, slider stops and typed times range over 0..MaxSeconds
MaxSeconds == 2

(***************************************************************************)
(* Program constants.                                                      *)
(***************************************************************************)
\* useState([0, 1000]) / useState(1000) and the reset in handleConvert
DefaultDuration == 1000

\* JavaScript null (the error state) and the empty object URL
Null == "<null>"

VARIABLES
    formData,       \* useState({url, title, artist, album, genre, start, end})
    status,         \* useState("")
    isConverted,    \* useState(false)
    isPlaying,      \* useState(false)
    error,          \* useState(null)
    rangeValues,    \* useState([0, 1000])
    audioDuration,  \* useState(1000)
    audioUrl,       \* useState("")
    currentTime,    \* useState(0)
    videoTitle,     \* useState("")
    audioRef,       \* useRef(null): the <audio> element, NoAudio for null
    requests,       \* fetch() calls whose handler still awaits the answer
    nextId,         \* number of the next fetch() call
    objectUrls,     \* URL.createObjectURL / revokeObjectURL bookkeeping
    sessOpen,       \* whether Convert has been clicked yet
    sessPreview,    \* preview requests sent since the last Convert click
    sessDownload,   \* download requests sent since the last Convert click
    jobs,           \* service side: the pipeline state of each request
    tempFiles,      \* service side: temporary artifacts on disk
    deleted         \* service side: how often each artifact was deleted

clientVars == <<formData, status, isConverted, isPlaying, error, rangeValues,
                audioDuration, audioUrl, currentTime, videoTitle, audioRef>>
netVars == <<requests, nextId, objectUrls>>
sessVars == <<sessOpen, sessPreview, sessDownload>>
serverVars == <<jobs, tempFiles, deleted>>
vars == <<clientVars, netVars, sessVars, serverVars>>

(***************************************************************************)
(* Strings.                                                                *)
(***************************************************************************)
Char(s, i) == SubSeq(s, i, i)

\* String.prototype.match with a literal pattern: p occurs somewhere in s
Includes(s, p) ==
    \E i \in 1..(Len(s) - Len(p) + 1) : SubSeq(s, i, i + Len(p) - 1) = p

\* s begins with p
StartsWith(s, p) == Len(s) >= Len(p) /\ SubSeq(s, 1, Len(p)) = p

Min(a, b) == IF a <= b THEN a ELSE b
Max(a, b) == IF a >= b THEN a ELSE b

(***************************************************************************)
(* URL validation, handleConvert line 152.                                 *)
(***************************************************************************)
\* formData.url.match(/youtube\.com|youtu\.be/): an unanchored search
MatchesYouTubePattern(url) ==
    Includes(url, "youtube.com") \/ Includes(url, "youtu.be")

\* UrlRejected with the pattern test left out
UrlRejectedWhenEmpty(url) == url = ""

\* !formData.url || !formData.url.match(...)
UrlRejected(url) == url = "" \/ ~MatchesYouTubePattern(url)

(***************************************************************************)
(* Time text, lines 20-38.                                                 *)
(***************************************************************************)
Digits == <<"0", "1", "2", "3", "4", "5", "6", "7", "8", "9">>
IsDigit(c) == \E d \in 1..10 : Digits[d] = c
DigitValue(c) == (CHOOSE d \in 1..10 : Digits[d] = c) - 1

\* number of leading decimal digits of s from position i on
RECURSIVE DigitRun(_, _)
DigitRun(s, i) ==
    IF i <= Len(s) /\ IsDigit(Char(s, i)) THEN 1 + DigitRun(s, i + 1) ELSE 0

RECURSIVE DigitsValue(_, _, _)
DigitsValue(s, i, n) ==
    IF n = 0 THEN 0
    ELSE 10 * DigitsValue(s, i, n - 1) + DigitValue(Char(s, i + n - 1))

RECURSIVE SkipSpaces(_, _)
SkipSpaces(s, i) ==
    IF i <= Len(s) /\ Char(s, i) = " " THEN SkipSpaces(s, i + 1) ELSE i

\* parseInt(s, 10): leading blanks, an optional sign, then the longest run of
\* digits; NaN when there is no digit
parseInt(s) ==
    LET i == SkipSpaces(s, 1)
        signed == i <= Len(s) /\ Char(s, i) \in {"-", "+"}
        j == IF signed THEN i + 1 ELSE i
        n == DigitRun(s, j)
        v == DigitsValue(s, j, n)
    IN  IF n = 0 THEN [nan |-> TRUE, val |-> 0]
        ELSE [nan |-> FALSE,
              val |-> IF signed /\ Char(s, i) = "-" THEN 0 - v ELSE v]

\* timeStr.split(':')
RECURSIVE SplitFrom(_, _, _)
SplitFrom(s, i, from) ==
    IF i > Len(s) THEN <<SubSeq(s, from, Len(s))>>
    ELSE IF Char(s, i) = ":"
         THEN <<SubSeq(s, from, i - 1)>> \o SplitFrom(s, i + 1, i + 1)
         ELSE SplitFrom(s, i + 1, from)
Split(s) == SplitFrom(s, 1, 1)

\* n.toString().padStart(2, '0')
PadStart2(n) == IF Len(ToString(n)) < 2 THEN "0" \o ToString(n) ELSE ToString(n)

\* formatTime(seconds), for the finite numbers the state holds
formatTime(seconds) ==
    IF seconds < 0 THEN "00:00"
    ELSE PadStart2(seconds \div 60) \o ":" \o PadStart2(seconds % 60)

\* parseTimeInput(timeStr)
parseTimeInput(timeStr) ==
    LET parts == Split(timeStr)
    IN  IF Len(parts) # 2 THEN 0
        ELSE LET mins == parseInt(parts[1])
                 secs == parseInt(parts[2])
             IN  IF mins.nan \/ secs.nan THEN 0
                 ELSE (mins.val * 60) + secs.val

(***************************************************************************)
(* User input, drawn from small sets.                                      *)
(***************************************************************************)
TagFields == {"title", "artist", "album", "genre"}

\* what the user types into the URL field: a video URL, a URL of another
\* site that merely contains a video host's name, and text that is no URL
UrlInputs == {"https://youtu.be/a", "http://x.io/youtu.be", "not-a-url"}

\* what the user types into a tag field
TagInputs == {"", "Mine"}

\* what the user types into a Start/End time field
TimeTexts ==
    {formatTime(n) : n \in 0..MaxSeconds} \cup {"-1:00", "abc"}

\* positions the user drags a slider thumb to
SliderStops == 0..MaxSeconds

\* media durations the <audio> element reports: NaN, or whole seconds with
\* or without a fractional half second
MediaDurations ==
    {[nan |-> TRUE, whole |-> 0, half |-> FALSE]}
        \cup {[nan |-> FALSE, whole |-> w, half |-> h] :
                  w \in 0..MaxSeconds, h \in BOOLEAN}

(***************************************************************************)
(* JavaScript numbers as far as the handlers use them.                     *)
(***************************************************************************)
Whole(n) == [nan |-> FALSE, whole |-> n, half |-> FALSE]
\* a number is falsy when it is NaN or 0
Truthy(x) == ~x.nan /\ (x.whole # 0 \/ x.half)
\* Math.floor
Floor(x) == Whole(x.whole)

(***************************************************************************)
(* Request bodies, lines 166-174 and 220-228.  JSON.stringify drops the    *)
(* keys whose value is undefined.                                          *)
(***************************************************************************)
\* title: formData.title || undefined, and so on for the other tags
TagPart(fd) == [k \in {t \in TagFields : fd[t] # ""} |-> fd[k]]

\* ConvertBody sending the trim range as handleDownload does
ConvertBodyWithRange(fd) ==
    [url |-> fd.url, start |-> rangeValues[1], end |-> rangeValues[2]]
        @@ TagPart(fd)

\* the body handleConvert sends
ConvertBody(fd) ==
    LET start == IF fd.start # 0 THEN fd.start ELSE 0
    IN  IF fd.end # 0
        THEN [url |-> fd.url, start |-> start, end |-> fd.end] @@ TagPart(fd)
        ELSE [url |-> fd.url, start |-> start] @@ TagPart(fd)

\* DownloadBody repeating the URL and tags of the request behind the loaded
\* preview instead of reading the form
DownloadBodyOfPreview(fd, rv) ==
    [url |-> audioRef.media.url, start |-> rv[1], end |-> rv[2]]
        @@ [k \in DOMAIN audioRef.media \cap TagFields |-> audioRef.media[k]]

\* the body handleDownload sends
DownloadBody(fd, rv) ==
    [url |-> fd.url, start |-> rv[1], end |-> rv[2]] @@ TagPart(fd)

\* URL.createObjectURL(blob) for the blob of response number id
ObjectUrl(id) == "blob:" \o ToString(id)

\* audioRef.current while no <audio> element is rendered
NoAudio ==
    [mounted |-> FALSE, src |-> "", media |-> [url |-> ""], readyState |-> 0,
     currentTime |-> 0, paused |-> TRUE]

(***************************************************************************)
(* Init: the state after the first render.                                 *)
(***************************************************************************)
Init ==
    /\ formData = [url |-> "", title |-> "", artist |-> "", album |-> "",
                   genre |-> "", start |-> 0, end |-> 0]
    /\ status = ""
    /\ isConverted = FALSE
    /\ isPlaying = FALSE
    /\ error = Null
    /\ rangeValues = <<0, DefaultDuration>>
    /\ audioDuration = DefaultDuration
    /\ audioUrl = ""
    /\ currentTime = 0
    /\ videoTitle = ""
    /\ audioRef = NoAudio
    /\ requests = {}
    /\ nextId = 1
    /\ objectUrls = {}
    /\ sessOpen = FALSE
    /\ sessPreview = 0
    /\ sessDownload = 0
    /\ jobs = <<>>
    /\ tempFiles = {}
    /\ deleted = <<>>

(***************************************************************************)
(* Rendering: what follows a state change.                                 *)
(***************************************************************************)
\* an effect cleanup that revokes nothing
RevokeNothing(urls, old, new) == urls

\* the effect cleanup of lines 348-354 revokes the audio URL being replaced
RevokeOld(urls, old, new) ==
    IF old # "" /\ old # new
    THEN {IF o.url = old THEN [o EXCEPT !.revoked = @ + 1] ELSE o : o \in urls}
    ELSE urls

\* <audio key={audioUrl} src={audioUrl}>, lines 522-543: a fresh element
\* playing the blob behind the object URL
NewAudio(url, blob) ==
    [mounted |-> TRUE, src |-> url, media |-> blob, readyState |-> 0,
     currentTime |-> 0, paused |-> TRUE]

(***************************************************************************)
(* handleChange, lines 123-126, reached from the inputs of lines 366-374   *)
(* (always rendered) and 550-581 (rendered when isConverted).              *)
(***************************************************************************)
handleChange(name, value) ==
    /\ name = "url" \/ isConverted
    /\ formData' = [formData EXCEPT ![name] = value]
    /\ Cardinality({t \in TagFields : formData'[t] # ""}) <= MaxTags
    /\ UNCHANGED <<status, isConverted, isPlaying, error, rangeValues,
                   audioDuration, audioUrl, currentTime, videoTitle, audioRef>>
    /\ UNCHANGED <<netVars, sessVars, serverVars>>

(***************************************************************************)
(* handleConvert, lines 131-175: up to the fetch.  The Convert button is   *)
(* disabled while the URL field is empty (line 377).                       *)
(***************************************************************************)
\* handleConvert validating the URL before it resets anything
handleConvertValidatingFirst(cap) ==
    /\ formData.url # ""
    /\ sessOpen' = TRUE
    /\ sessDownload' = 0
    /\ IF UrlRejected(formData.url)
       THEN /\ error' = "Please enter a valid YouTube URL"
            /\ status' = ""
            /\ sessPreview' = 0
            /\ UNCHANGED <<isConverted, objectUrls, audioUrl, currentTime,
                           rangeValues, audioDuration, videoTitle, audioRef,
                           isPlaying, requests, nextId>>
       ELSE /\ nextId <= cap
            /\ isConverted' = FALSE
            /\ objectUrls' = RevokeOld(objectUrls, audioUrl, "")
            /\ audioUrl' = ""
            /\ currentTime' = 0
            /\ rangeValues' = <<0, DefaultDuration>>
            /\ audioDuration' = DefaultDuration
            /\ videoTitle' = ""
            /\ audioRef' = NoAudio
            /\ isPlaying' = FALSE
            /\ status' = "Converting..."
            /\ error' = Null
            /\ requests' = requests \cup
                   {[id |-> nextId, kind |-> "preview",
                     body |-> ConvertBody(formData)]}
            /\ nextId' = nextId + 1
            /\ sessPreview' = 1
    /\ UNCHANGED <<formData, serverVars>>

handleConvert(cap) ==
    /\ formData.url # ""
    /\ isConverted' = FALSE
    /\ objectUrls' = RevokeOld(objectUrls, audioUrl, "")
    /\ audioUrl' = ""
    /\ currentTime' = 0
    /\ rangeValues' = <<0, DefaultDuration>>
    /\ audioDuration' = DefaultDuration
    /\ videoTitle' = ""
    /\ audioRef' = NoAudio
    /\ isPlaying' = FALSE
    /\ sessOpen' = TRUE
    /\ sessDownload' = 0
    /\ IF UrlRejected(formData.url)
       THEN /\ error' = "Please enter a valid YouTube URL"
            /\ status' = ""
            /\ sessPreview' = 0
            /\ UNCHANGED <<requests, nextId>>
       ELSE /\ nextId <= cap
            /\ status' = "Converting..."
            /\ error' = Null
            /\ requests' = requests \cup
                   {[id |-> nextId, kind |-> "preview",
                     body |-> ConvertBody(formData)]}
            /\ nextId' = nextId + 1
            /\ sessPreview' = 1
    /\ UNCHANGED <<formData, serverVars>>

(***************************************************************************)
(* The conversion service as the design document states it (sections 4.1,  *)
(* 4.4, 6): it answers a request with the MP3 and the resolved title, or   *)
(* with a structured error; the fetch may also fail on the network.  An    *)
(* answer depends on the request alone and the client sees it only when    *)
(* the awaiting handler resumes, so it is drawn at that step.              *)
(***************************************************************************)
VideoHosts == {"youtube.com", "www.youtube.com", "m.youtube.com", "youtu.be"}

\* the text after the scheme, Null without an http(s) scheme
AfterScheme(url) ==
    IF StartsWith(url, "https://") THEN SubSeq(url, 9, Len(url))
    ELSE IF StartsWith(url, "http://") THEN SubSeq(url, 8, Len(url))
    ELSE Null

RECURSIVE HostEnd(_, _)
HostEnd(s, i) ==
    IF i > Len(s) \/ Char(s, i) \in {"/", "?", "#", ":"} THEN i - 1
    ELSE HostEnd(s, i + 1)

\* "a recognized video-hosting URL shape": an http(s) URL whose host is a
\* video host
IsVideoHostingUrl(url) ==
    /\ AfterScheme(url) # Null
    /\ SubSeq(AfterScheme(url), 1, HostEnd(AfterScheme(url), 1)) \in VideoHosts

\* the display title the Source Resolver finds for a URL
ResolvedTitle(url) == "Title of " \o url

\* the error field of a failure body; the client falls back when it is empty
ErrorFields == {"", "Video unavailable"}

\* the answers a request can get
Answers(r) ==
    (IF IsVideoHostingUrl(r.body.url)
     THEN {[id |-> r.id, kind |-> r.kind, outcome |-> "ok",
            title |-> ResolvedTitle(r.body.url), error |-> "",
            blob |-> r.body]}
     ELSE {})
    \cup {[id |-> r.id, kind |-> r.kind, outcome |-> "error", title |-> "",
           error |-> e, blob |-> r.body] : e \in ErrorFields}
    \cup {[id |-> r.id, kind |-> r.kind, outcome |-> "network", title |-> "",
           error |-> "Failed to fetch", blob |-> r.body]}

(***************************************************************************)
(* handleConvert, lines 177-202: after the fetch.                          *)
(***************************************************************************)
\* ConvertFailure without the fallback message
ConvertFailureNoFallback(resp) == resp.error

\* lines 179-183 and 198-202: the message of the error thrown and caught
ConvertFailure(resp) ==
    IF resp.outcome = "network" THEN resp.error
    ELSE IF resp.error # "" THEN resp.error ELSE "Conversion failed"

\* ShownTitle preferring the title the user typed as a tag
ShownTitlePrefersTag(resp) ==
    IF formData.title # "" THEN formData.title
    ELSE IF resp.title # "" THEN resp.title ELSE " "

\* lines 186-187: response.headers.get("X-Video-Title") || " "
ShownTitle(resp) == IF resp.title # "" THEN resp.title ELSE " "

handleConvertResume(r, resp) ==
    /\ r \in requests
    /\ r.kind = "preview"
    /\ resp \in Answers(r)
    /\ requests' = requests \ {r}
    /\ IF resp.outcome = "ok"
       THEN /\ videoTitle' = ShownTitle(resp)
            /\ audioUrl' = ObjectUrl(resp.id)
            /\ objectUrls' = RevokeOld(objectUrls, audioUrl, ObjectUrl(resp.id))
                   \cup {[url |-> ObjectUrl(resp.id), revoked |-> 0]}
            /\ audioRef' = NewAudio(ObjectUrl(resp.id), resp.blob)
            /\ isConverted' = TRUE
            /\ status' = "Conversion complete!"
            /\ UNCHANGED error
       ELSE /\ error' = ConvertFailure(resp)
            /\ status' = "Failed to convert"
            /\ UNCHANGED <<videoTitle, audioUrl, objectUrls, audioRef,
                           isConverted>>
    /\ UNCHANGED <<formData, isPlaying, rangeValues, audioDuration, currentTime>>
    /\ UNCHANGED <<nextId, sessVars, serverVars>>

(***************************************************************************)
(* handleDownload, lines 208-255.                                          *)
(***************************************************************************)
\* handleDownload without the early return of line 209
handleDownloadUnguarded(cap) ==
    /\ nextId <= cap
    /\ status' = "Preparing download..."
    /\ requests' = requests \cup
           {[id |-> nextId, kind |-> "download",
             body |-> [url |-> formData.url, start |-> rangeValues[1],
                       end |-> rangeValues[2]] @@ TagPart(formData)]}
    /\ nextId' = nextId + 1
    /\ sessDownload' = sessDownload + 1
    /\ UNCHANGED <<formData, isConverted, isPlaying, error, rangeValues,
                   audioDuration, audioUrl, currentTime, videoTitle, audioRef>>
    /\ UNCHANGED <<objectUrls, sessOpen, sessPreview, serverVars>>

handleDownload(cap) ==
    /\ audioUrl # ""
    /\ nextId <= cap
    /\ status' = "Preparing download..."
    /\ requests' = requests \cup
           {[id |-> nextId, kind |-> "download",
             body |-> DownloadBody(formData, rangeValues)]}
    /\ nextId' = nextId + 1
    /\ sessDownload' = sessDownload + 1
    /\ UNCHANGED <<formData, isConverted, isPlaying, error, rangeValues,
                   audioDuration, audioUrl, currentTime, videoTitle, audioRef>>
    /\ UNCHANGED <<objectUrls, sessOpen, sessPreview, serverVars>>

\* lines 231-234 and 250-254
DownloadFailure(resp) ==
    IF resp.outcome = "network" THEN resp.error
    ELSE IF resp.error # "" THEN resp.error ELSE "Download preparation failed"

handleDownloadResume(r, resp) ==
    /\ r \in requests
    /\ r.kind = "download"
    /\ resp \in Answers(r)
    /\ requests' = requests \ {r}
    /\ IF resp.outcome = "ok"
       THEN /\ objectUrls' = objectUrls \cup
                   {[url |-> ObjectUrl(resp.id), revoked |-> 1]}
            /\ status' = "Download complete!"
            /\ UNCHANGED error
       ELSE /\ error' = DownloadFailure(resp)
            /\ status' = "Failed to download"
            /\ UNCHANGED objectUrls
    /\ UNCHANGED <<formData, isConverted, isPlaying, rangeValues,
                   audioDuration, audioUrl, currentTime, videoTitle, audioRef>>
    /\ UNCHANGED <<nextId, sessVars, serverVars>>

(***************************************************************************)
(* The loadedmetadata event of the <audio> element.  React's own listener  *)
(* (onLoadedMetadata, lines 526-532) is attached when the element is       *)
(* created; the effect of lines 313-345 adds handleMetadata after the      *)
(* commit, so it runs second and its state updates are the later ones.     *)
(***************************************************************************)
\* lines 526-532: what the listener sets, from the state st
onLoadedMetadata(d, st) ==
    LET duration == IF Truthy(d) THEN d ELSE Whole(DefaultDuration)
    IN  [audioDuration |-> duration,
         rangeValues |-> <<0, Floor(duration).whole>>]

\* lines 316-328
handleMetadata(d, st) ==
    IF Truthy(d) /\ ~d.nan
    THEN [audioDuration |-> Floor(d), rangeValues |-> <<0, Floor(d).whole>>]
    ELSE st

loadedmetadata(d) ==
    /\ audioRef.mounted
    /\ audioRef.readyState = 0
    /\ LET st0 == [audioDuration |-> Whole(audioDuration),
                   rangeValues |-> rangeValues]
           st == handleMetadata(d, onLoadedMetadata(d, st0))
       IN  \* handleMetadata overwrites every fractional duration
           /\ ~st.audioDuration.half
           /\ audioDuration' = st.audioDuration.whole
           /\ rangeValues' = st.rangeValues
    /\ audioRef' = [audioRef EXCEPT !.readyState = 1]
    /\ UNCHANGED <<formData, status, isConverted, isPlaying, error, audioUrl,
                   currentTime, videoTitle>>
    /\ UNCHANGED <<netVars, sessVars, serverVars>>

(***************************************************************************)
(* The trim controls, rendered when isConverted.                           *)
(***************************************************************************)
\* <Range step={1} min={0} max={Math.floor(audioDuration)} values onChange>,
\* lines 450-455: the thumb moves in whole steps within min..max and stops
\* at the other thumb, which it may reach but not pass
RangeChange(thumb, stop) ==
    /\ isConverted
    /\ stop <= audioDuration
    /\ LET v == IF thumb = 1 THEN Min(stop, Max(rangeValues[2], 0))
                ELSE Max(stop, Max(rangeValues[1], 0))
       IN  rangeValues' = [rangeValues EXCEPT ![thumb] = v]
    /\ rangeValues' # rangeValues
    /\ UNCHANGED <<formData, status, isConverted, isPlaying, error,
                   audioDuration, audioUrl, currentTime, videoTitle, audioRef>>
    /\ UNCHANGED <<netVars, sessVars, serverVars>>

\* audioRef.current.currentTime = t (lines 266, 280, 302, 539): the media
\* element moves to the earliest position when t lies before it
Seek(t) == Max(0, t)

\* TimeInput.handleBlur, lines 64-68: the seconds handed to onChange
ValidSeconds(inputValue, max) ==
    Min(Max(0, parseTimeInput(inputValue)), max)

\* handleStartTimeChange, lines 274-283, behind the Start field (max =
\* audioDuration - 1, line 483)
handleStartTimeChange(inputValue) ==
    /\ isConverted
    /\ LET seconds == ValidSeconds(inputValue, audioDuration - 1)
           newStart == Min(seconds, rangeValues[2] - 1)
       IN  /\ rangeValues' = <<newStart, rangeValues[2]>>
           /\ audioRef' = IF audioRef.mounted /\ isPlaying
                          THEN [audioRef EXCEPT !.currentTime = Seek(newStart)]
                          ELSE audioRef
    /\ UNCHANGED <<formData, status, isConverted, isPlaying, error,
                   audioDuration, audioUrl, currentTime, videoTitle>>
    /\ UNCHANGED <<netVars, sessVars, serverVars>>

\* handleEndTimeChange, lines 286-290, behind the End field (max =
\* audioDuration, line 489)
handleEndTimeChange(inputValue) ==
    /\ isConverted
    /\ LET seconds == ValidSeconds(inputValue, audioDuration)
           newEnd == Max(seconds, rangeValues[1] + 1)
       IN  rangeValues' = <<rangeValues[1], Min(newEnd, audioDuration)>>
    /\ UNCHANGED <<formData, status, isConverted, isPlaying, error,
                   audioDuration, audioUrl, currentTime, videoTitle, audioRef>>
    /\ UNCHANGED <<netVars, sessVars, serverVars>>

\* ErrorMessage onDismiss, lines 596-601
dismissError ==
    /\ error # Null
    /\ error' = Null
    /\ UNCHANGED <<formData, status, isConverted, isPlaying, rangeValues,
                   audioDuration, audioUrl, currentTime, videoTitle, audioRef>>
    /\ UNCHANGED <<netVars, sessVars, serverVars>>

(***************************************************************************)
(* Preview playback, lines 260-271, 293-310 and 533-541.  Positions are    *)
(* whole seconds.                                                          *)
(***************************************************************************)
\* the end-of-range check of lines 298-302 and 535-540 on an element at
\* position pos: the element afterwards, and whether playback was stopped
EndOfRange(el, pos) ==
    IF pos >= rangeValues[2]
    THEN [el |-> [el EXCEPT !.paused = TRUE,
                            !.currentTime = Seek(rangeValues[1])],
          stop |-> TRUE]
    ELSE [el |-> [el EXCEPT !.currentTime = pos], stop |-> FALSE]

\* togglePlay, lines 260-271, behind the Play/Pause Preview button
togglePlay ==
    /\ isConverted
    /\ audioRef.mounted
    /\ audioRef' = IF isPlaying
                   THEN [audioRef EXCEPT !.paused = TRUE]
                   ELSE [audioRef EXCEPT !.currentTime = Seek(rangeValues[1]),
                                         !.paused = FALSE]
    /\ isPlaying' = ~isPlaying
    /\ UNCHANGED <<formData, status, isConverted, error, rangeValues,
                   audioDuration, audioUrl, currentTime, videoTitle>>
    /\ UNCHANGED <<netVars, sessVars, serverVars>>

\* the timeupdate event of a playing element, whose position has advanced
\* by a second, and its listener onTimeUpdate, lines 534-541
onTimeUpdate ==
    /\ audioRef.mounted
    /\ ~audioRef.paused
    /\ audioRef.currentTime < audioDuration
    /\ audioRef.currentTime <= MaxSeconds
    /\ LET after == EndOfRange(audioRef, audioRef.currentTime + 1)
       IN  /\ audioRef' = after.el
           /\ isPlaying' = IF after.stop THEN FALSE ELSE isPlaying
    /\ UNCHANGED <<formData, status, isConverted, error, rangeValues,
                   audioDuration, audioUrl, currentTime, videoTitle>>
    /\ UNCHANGED <<netVars, sessVars, serverVars>>

\* updateTime, lines 294-304, run by the interval of line 307 whether the
\* element plays or not
updateTime ==
    /\ audioRef.mounted
    /\ currentTime' = audioRef.currentTime
    /\ LET after == EndOfRange(audioRef, audioRef.currentTime)
       IN  /\ audioRef' = after.el
           /\ isPlaying' = IF after.stop THEN FALSE ELSE isPlaying
    /\ UNCHANGED <<formData, status, isConverted, error, rangeValues,
                   audioDuration, audioUrl, videoTitle>>
    /\ UNCHANGED <<netVars, sessVars, serverVars>>

\* the ended event of a playing element and its listener onEnded, line 533;
\* the media may end at any position
onEnded ==
    /\ audioRef.mounted
    /\ ~audioRef.paused
    /\ audioRef' = [audioRef EXCEPT !.paused = TRUE]
    /\ isPlaying' = FALSE
    /\ UNCHANGED <<formData, status, isConverted, error, rangeValues,
                   audioDuration, audioUrl, currentTime, videoTitle>>
    /\ UNCHANGED <<netVars, sessVars, serverVars>>

(***************************************************************************)
(* One step of the program, with the user's and the environment's inputs   *)
(* drawn from the given sets.                                              *)
(***************************************************************************)
Step(cap, urls, tags, durations, stops, texts) ==
    \/ \E name \in {"url"} \cup tags :
           \E value \in (IF name = "url" THEN urls ELSE TagInputs) :
               handleChange(name, value)
    \/ handleConvert(cap)
    \/ \E r \in requests : \E resp \in Answers(r) : handleConvertResume(r, resp)
    \/ handleDownload(cap)
    \/ \E r \in requests : \E resp \in Answers(r) : handleDownloadResume(r, resp)
    \/ \E d \in durations : loadedmetadata(d)
    \/ \E thumb \in {1, 2} : \E stop \in stops : RangeChange(thumb, stop)
    \/ \E text \in texts : handleStartTimeChange(text)
    \/ \E text \in texts : handleEndTimeChange(text)
    \/ dismissError

\* every form input, with one media duration and a few trim inputs
Next ==
    Step(MaxRequests, UrlInputs, TagFields,
         {[nan |-> FALSE, whole |-> 1, half |-> TRUE]}, {0, 1}, {"00:01"})

Spec == Init /\ [][Next]_vars

\* one URL and no tags, with every media duration and trim input
NextTrim ==
    Step(MaxSessionRequests, {"https://youtu.be/a"}, {},
         MediaDurations, SliderStops, TimeTexts)

SpecTrim == Init /\ [][NextTrim]_vars

\* two URLs and no tags, with one media duration and a few trim inputs
NextSession ==
    Step(MaxSessionRequests, {"https://youtu.be/a", "not-a-url"}, {},
         {[nan |-> FALSE, whole |-> 1, half |-> TRUE]}, {0, 1}, {"00:01"})

SpecSession == Init /\ [][NextSession]_vars

\* two video URLs and no tags, with one media duration and a few trim inputs
NextRace ==
    Step(MaxRequests, {"https://youtu.be/a", "https://youtu.be/b"}, {},
         {[nan |-> FALSE, whole |-> 1, half |-> TRUE]}, {0, 1}, {"00:01"})

SpecRace == Init /\ [][NextRace]_vars

\* two URLs and no tags, with a preview of two seconds, every slider stop,
\* two trim inputs and playback
NextPlay ==
    \/ Step(MaxRequests, {"https://youtu.be/a", "not-a-url"}, {},
            {Whole(MaxSeconds)},
            SliderStops, {"00:00", "00:01"})
    \/ togglePlay
    \/ onTimeUpdate
    \/ updateTime
    \/ onEnded

SpecPlay == Init /\ [][NextPlay]_vars

(***************************************************************************)
(* C1.                                                                     *)
(***************************************************************************)
\* a step of handleConvert, whatever the request budget
ConvertInvoked ==
    handleConvert(MaxRequests) \/ handleConvert(MaxSessionRequests)

\* C1: whenever Convert is invoked with a URL that is empty, malformed or
\* not a video-hosting URL, the attempt fails with the invalid-input error
\* and sends no request.
C1_InvalidUrlFailsFast ==
    [][(ConvertInvoked /\ ~IsVideoHostingUrl(formData.url))
           => /\ requests' = requests
              /\ error' = "Please enter a valid YouTube URL"
              /\ status' = ""]_vars

(***************************************************************************)
(* C2.                                                                     *)
(***************************************************************************)
\* the requests a step sends
NewRequests == requests' \ requests

\* C2 as stated: every session, from one Convert click to the next, sends
\* exactly two requests, one preview request at the click and one download
\* request; never more, never fewer.
C2_ExactlyTwoPerSession ==
    [][/\ sessOpen' => (sessPreview' = 1 /\ sessDownload' <= 1)
       /\ (sessOpen /\ ConvertInvoked)
              => (sessPreview = 1 /\ sessDownload = 1)]_vars

\* C2 amended: a Convert click opens a session and sends exactly one
\* preview request when the URL passes the client's pattern check and none
\* otherwise; every other step sends at most one request, a download
\* request, and only while a preview is loaded; a session counts at most one
\* preview request and one download request per such Download click.
C2_SessionRequests ==
    [][/\ ConvertInvoked
              => /\ \A r \in NewRequests : r.kind = "preview"
                 /\ Cardinality(NewRequests)
                        = (IF MatchesYouTubePattern(formData.url) THEN 1 ELSE 0)
                 /\ sessPreview' = Cardinality(NewRequests)
                 /\ sessDownload' = 0
       /\ ~ConvertInvoked
              => /\ \A r \in NewRequests : r.kind = "download" /\ audioUrl # ""
                 /\ Cardinality(NewRequests) <= 1
                 /\ sessPreview' = sessPreview
                 /\ sessDownload' = sessDownload + Cardinality(NewRequests)]_vars

\* a session with its preview request and two download requests
C2_Witness == sessOpen /\ sessPreview = 1 /\ sessDownload = 2

(***************************************************************************)
(* C3, C4.                                                                 *)
(***************************************************************************)
\* C3: every download request has a trim window of at least one second.
C3_DownloadWindowAtLeastOneSecond ==
    \A r \in requests : r.kind = "download" => r.body.end - r.body.start >= 1

\* C4: on a loaded preview the trim range stays within 0..audioDuration, and
\* so does the window of every download request.
C4_RangeWithinBounds ==
    /\ isConverted => (0 <= rangeValues[1] /\ rangeValues[2] <= audioDuration)
    /\ \A r \in requests : r.kind = "download" => 0 <= r.body.start

(***************************************************************************)
(* C5.                                                                     *)
(***************************************************************************)
\* C5: every preview request carries start = 0 and no end.
C5_PreviewAsksForFullDuration ==
    \A r \in requests :
        r.kind = "preview" => (r.body.start = 0 /\ "end" \notin DOMAIN r.body)

\* a preview request sent after a download request with a trimmed window
C5_Witness ==
    \E d \in requests : \E p \in requests :
        /\ d.kind = "download" /\ d.body.start > 0
        /\ p.kind = "preview" /\ p.id > d.id

(***************************************************************************)
(* C6.                                                                     *)
(***************************************************************************)
\* C6: a download request is sent only while the preview of a successful
\* preview request is loaded; while there is none, Download sends nothing.
C6_DownloadNeedsLoadedPreview ==
    [][\A r \in NewRequests :
           r.kind = "download"
               => /\ audioUrl # ""
                  /\ isConverted
                  /\ audioRef.mounted /\ audioRef.src = audioUrl
                  /\ \E o \in objectUrls : o.url = audioUrl /\ o.revoked = 0]_vars

\* a download request in flight after an earlier conversion failed
C6_Witness ==
    /\ \E r \in requests : r.kind = "download"
    /\ error # Null

(***************************************************************************)
(* C7.                                                                     *)
(***************************************************************************)
\* the URL and the tags of a request body
Meta(body) == [k \in DOMAIN body \ {"start", "end"} |-> body[k]]

\* C7 as stated: a download request repeats the URL and the tags of the
\* preview request that produced the loaded preview.
C7_DownloadRepeatsPreview ==
    [][\A r \in NewRequests :
           r.kind = "download" => Meta(r.body) = Meta(audioRef.media)]_vars

\* C7 amended: a download request carries the URL and the non-empty tags
\* the form holds when Download is invoked, and the current trim range.
C7_DownloadCarriesForm ==
    [][\A r \in NewRequests :
           r.kind = "download"
               => /\ r.body.url = formData.url
                  /\ \A t \in TagFields :
                         IF formData[t] = "" THEN t \notin DOMAIN r.body
                         ELSE t \in DOMAIN r.body /\ r.body[t] = formData[t]
                  /\ r.body.start = rangeValues[1]
                  /\ r.body.end = rangeValues[2]]_vars

\* a download request in flight whose URL or tags differ from those of the
\* request behind the loaded preview
C7_Witness ==
    \E r \in requests :
        /\ r.kind = "download"
        /\ audioRef.mounted
        /\ Meta(r.body) # Meta(audioRef.media)

C9_FailedConversion ==
    [][\A r \in requests : \A resp \in Answers(r) :
           (resp.outcome = "error" /\ handleConvertResume(r, resp))
               => /\ error' = (IF resp.error # "" THEN resp.error
                               ELSE "Conversion failed")
                  /\ status' = "Failed to convert"
                  /\ audioUrl' = audioUrl
                  /\ isConverted' = isConverted]_vars

\* a failed conversion that left the loaded preview of an earlier one alone
C9_Witness ==
    /\ status = "Failed to convert"
    /\ error = "Conversion failed"
    /\ isConverted

(***************************************************************************)
(* C11.                                                                    *)
(***************************************************************************)
\* C11: whenever a check of the playback position (the timeupdate listener
\* or the interval's updateTime) finds it at or past the selected end,
\* playback is paused, isPlaying is false and the position is the selected
\* start; a position that has advanced is never left playing at or past
\* the end.
C11_PlaybackStopsAtEnd ==
    [][/\ (updateTime /\ audioRef.currentTime >= rangeValues[2])
           => /\ audioRef'.paused
              /\ ~isPlaying'
              /\ audioRef'.currentTime = rangeValues[1]
       /\ (onTimeUpdate /\ audioRef.currentTime + 1 >= rangeValues[2])
           => /\ audioRef'.paused
              /\ ~isPlaying'
              /\ audioRef'.currentTime = rangeValues[1]
       /\ onTimeUpdate
           => (audioRef'.paused \/ audioRef'.currentTime < rangeValues[2])]_vars

(***************************************************************************)
(* C12.                                                                    *)
(***************************************************************************)
\* C12: every invocation of Convert, one whose URL fails validation
\* included, leaves audioUrl empty, currentTime 0, the range [0, 1000],
\* audioDuration 1000, videoTitle empty, and isPlaying and isConverted false.
C12_ConvertResetsAudioState ==
    [][(handleConvert(MaxRequests) \/ handleConvert(MaxSessionRequests))
           => /\ audioUrl' = ""
              /\ currentTime' = 0
              /\ rangeValues' = <<0, DefaultDuration>>
              /\ audioDuration' = DefaultDuration
              /\ videoTitle' = ""
              /\ ~isPlaying'
              /\ ~isConverted']_vars

\* Convert was invoked on a rejected URL after a preview had been loaded,
\* and the preview is gone
C12_Witness ==
    /\ error = "Please enter a valid YouTube URL"
    /\ status = ""
    /\ UrlRejected(formData.url)
    /\ \E o \in objectUrls : o.revoked = 1
    /\ audioUrl = ""
    /\ ~audioRef.mounted

(***************************************************************************)
(* C13.                                                                    *)
(***************************************************************************)
\* C13: no object URL is revoked twice; the object URL that is the current
\* audioUrl, the source of the mounted <audio> element, is not revoked; and
\* every other object URL the client has created (a download URL, or a
\* preview URL that has been replaced or reset) has been revoked once.
C13_ObjectUrlsRevokedOnce ==
    /\ \A o \in objectUrls :
           o.revoked = (IF o.url = audioUrl THEN 0 ELSE 1)
    /\ \A o \in objectUrls : \A q \in objectUrls : o.url = q.url => o = q
    /\ audioRef.mounted
           => /\ audioRef.src = audioUrl
              /\ [url |-> audioUrl, revoked |-> 0] \in objectUrls

\* a preview that replaced an earlier one, which is revoked, and a download
\* made from it
C13_Witness ==
    /\ audioRef.mounted
    /\ Cardinality({o \in objectUrls : o.revoked = 1}) = 2
    /\ sessDownload = 1
    /\ requests = {}

(***************************************************************************)
(* C14.                                                                    *)
(***************************************************************************)
\* the number of the request whose answer an object URL was created from
RequestOf(url) == CHOOSE i \in 1..nextId : ObjectUrl(i) = url

\* C14: when Convert requests overlap, the preview and the title shown end
\* up being those of the most recently submitted request whatever the order
\* of the answers: a preview is only ever replaced by the preview of a
\* request submitted after its own, and the title shown with a preview is
\* the one resolved for that preview's URL.
C14_LatestConvertWins ==
    [][/\ (audioUrl # "" /\ audioUrl' # "" /\ audioUrl' # audioUrl)
           => RequestOf(audioUrl') > RequestOf(audioUrl)
       /\ (audioUrl' # "" /\ audioUrl' # audioUrl)
           => videoTitle' = ResolvedTitle(audioRef'.media.url)]_vars

(***************************************************************************)
(* The Pipeline Orchestrator of the conversion service, as the design      *)
(* document states it (sections 3, 4.1-4.4, 5): each request runs          *)
(*   Received -> Resolving -> Trimming -> Tagging -> Streaming             *)
(*            -> Completed | Failed                                        *)
(* on its own temporary artifacts, and every exit path, cancellation       *)
(* included, releases them.                                                *)
(***************************************************************************)
\* the requests the service receives
ConversionRequests ==
    {[url |-> u] : u \in {"https://youtu.be/a", "not-a-url"}}

\* the stages a request has left the pipeline in
ExitStages == {"Completed", "Failed", "Cancelled"}

Artifact(j, kind) == [job |-> j, kind |-> kind]

\* a release that leaves the artifacts of the request where they are
ReleaseNothing(j) == UNCHANGED <<tempFiles, deleted>>

\* the scope-exit release: every artifact the request created is deleted
Release(j) ==
    /\ tempFiles' = tempFiles \ jobs[j].files
    /\ deleted' = [f \in DOMAIN deleted |->
                       IF f \in jobs[j].files THEN deleted[f] + 1
                       ELSE deleted[f]]

\* the request leaves the pipeline: a Failed transition, cancellation or
\* normal completion
Exit(j, stage, failure) ==
    /\ jobs' = [jobs EXCEPT ![j].stage = stage, ![j].failure = failure]
    /\ Release(j)

\* the request stays in the pipeline, with a new artifact or none
Advance(j, stage, created) ==
    /\ jobs' = [jobs EXCEPT ![j].stage = stage,
                            ![j].files = @ \cup created]
    /\ tempFiles' = tempFiles \cup created
    /\ deleted' = [f \in DOMAIN deleted \cup created |->
                       IF f \in DOMAIN deleted THEN deleted[f] ELSE 0]

\* a request arrives
Receive(req) ==
    /\ Len(jobs) < MaxJobs
    /\ jobs' = Append(jobs, [stage |-> "Received", req |-> req, files |-> {},
                             failure |-> ""])
    /\ UNCHANGED <<tempFiles, deleted>>
    /\ UNCHANGED <<clientVars, netVars, sessVars>>

\* Received -> Resolving, or Failed(InvalidInput) on a URL of no
\* video-hosting shape
Validate(j) ==
    /\ jobs[j].stage = "Received"
    /\ IF IsVideoHostingUrl(jobs[j].req.url)
       THEN Advance(j, "Resolving", {})
       ELSE Exit(j, "Failed", "InvalidInput")
    /\ UNCHANGED <<clientVars, netVars, sessVars>>

\* Resolving -> Trimming with the raw audio in a temporary file, or Failed;
\* the extractor may fail before or after it has written the file
Resolve(j, failure, written) ==
    /\ jobs[j].stage = "Resolving"
    /\ IF failure = ""
       THEN written /\ Advance(j, "Trimming", {Artifact(j, "raw")})
       ELSE IF written
       THEN Advance(j, "Resolving failed", {Artifact(j, "raw")})
       ELSE Exit(j, "Failed", failure)
    /\ UNCHANGED <<clientVars, netVars, sessVars>>

\* the Failed transition of a resolution that failed with the file written
ResolveFailed(j, failure) ==
    /\ jobs[j].stage = "Resolving failed"
    /\ Exit(j, "Failed", failure)
    /\ UNCHANGED <<clientVars, netVars, sessVars>>

\* Trimming -> Tagging with the encoded audio, or Failed
Transcode(j, failure) ==
    /\ jobs[j].stage = "Trimming"
    /\ IF failure = ""
       THEN Advance(j, "Tagging", {Artifact(j, "encoded")})
       ELSE Exit(j, "Failed", failure)
    /\ UNCHANGED <<clientVars, netVars, sessVars>>

\* Tagging -> Streaming, with the tagged file or, on a tag-write failure,
\* with the untagged audio
ApplyTags(j, ok) ==
    /\ jobs[j].stage = "Tagging"
    /\ Advance(j, "Streaming", IF ok THEN {Artifact(j, "tagged")} ELSE {})
    /\ UNCHANGED <<clientVars, netVars, sessVars>>

\* Streaming -> Completed
Stream(j) ==
    /\ jobs[j].stage = "Streaming"
    /\ Exit(j, "Completed", "")
    /\ UNCHANGED <<clientVars, netVars, sessVars>>

\* the caller disconnects or the request is aborted
Cancel(j) ==
    /\ jobs[j].stage \notin ExitStages
    /\ Exit(j, "Cancelled", "")
    /\ UNCHANGED <<clientVars, netVars, sessVars>>

NextPipeline ==
    \/ \E req \in ConversionRequests : Receive(req)
    \/ \E j \in DOMAIN jobs : Validate(j)
    \/ \E j \in DOMAIN jobs :
           \E failure \in {"", "SourceUnavailable", "UpstreamFailure"} :
               \E written \in BOOLEAN : Resolve(j, failure, written)
    \/ \E j \in DOMAIN jobs :
           \E failure \in {"SourceUnavailable", "UpstreamFailure"} :
               ResolveFailed(j, failure)
    \/ \E j \in DOMAIN jobs :
           \E failure \in {"", "MediaDecodeError", "MediaEncodeError"} :
               Transcode(j, failure)
    \/ \E j \in DOMAIN jobs : \E ok \in BOOLEAN : ApplyTags(j, ok)
    \/ \E j \in DOMAIN jobs : Stream(j)
    \/ \E j \in DOMAIN jobs : Cancel(j)

SpecPipeline == Init /\ [][NextPipeline]_vars

(***************************************************************************)
(* C10.                                                                    *)
(***************************************************************************)
\* C10: once a request has left the pipeline, by completion, failure or
\* cancellation, none of the artifacts it created is on disk and each was
\* deleted exactly once; until then its artifacts are on disk, undeleted.
C10_ArtifactsDeletedOnce ==
    \A j \in DOMAIN jobs :
        \A f \in jobs[j].files :
            IF jobs[j].stage \in ExitStages
            THEN f \notin tempFiles /\ deleted[f] = 1
            ELSE f \in tempFiles /\ deleted[f] = 0

\* a request that failed after it had created an artifact, beside one that
\* was cancelled after it had created two
C10_Witness ==
    \E j \in DOMAIN jobs : \E k \in DOMAIN jobs :
        /\ jobs[j].stage = "Failed" /\ jobs[j].files # {}
        /\ jobs[k].stage = "Cancelled" /\ Cardinality(jobs[k].files) = 2

====
